---- MODULE Spec2Model ----
(***************************************************************************)
(* Model of src/api/src/main.py: the POST /analyze-letterboxd handler      *)
(* (analyze_letterboxd), the TMDB fetcher (get_movie_data) behind the      *)
(* process-wide asyncio.Semaphore(10), and the movie_cache.csv file.       *)
(*                                                                         *)
(* Text is modelled as TLA+ strings, so that the cache key                 *)
(* Name.astype(str) + Year.astype(str) is a real concatenation and the     *)
(* CSV / JSON cells of the cache file are really written and parsed.       *)
(* An optional value (Python None, pandas NaN / <NA>) is a sequence of     *)
(* length 0 or 1.                                                          *)
(***************************************************************************)
EXTENDS Integers, Sequences, FiniteSets, TLC

(* ------------------------------ bounds -------------------------------- *)
\* rows of one uploaded ratings file
MaxRecords == 2
\* invocations of the handler started in one behaviour
MaxRuns == 2
\* rows of the one upload of the statistics specification
AggRecords == 2
\* rows of the one large upload of the admission-gate specification
GateBatch == 11
\* rows of one upload of the two-client specification
ParRecords == 1

(* ------------------------- program constants -------------------------- *)
\* asyncio.Semaphore(10)
SemaphoreSlots == 10

(* --------------------------- small universes -------------------------- *)
\* the requests that can be in progress at once (two overlapping requests)
Procs == {"p1", "p2"}

None == <<>>
Some(x) == <<x>>

\* (Name, Year) of the films of the small uploads; "A"+"11" = "A1"+"1"
Films == {<<"A", 1>>, <<"A", 11>>, <<"A1", 1>>}
\* the integers whose decimal text occurs in a file
Numerals == 0 .. (GateBatch + 10)
NumeralText == [n \in Numerals |-> ToString(n)]

\* str(int), as astype(str) and to_csv write an integer
IntToStr(n) == NumeralText[n]
\* the parse of a numeric CSV cell; None when the text is not a number
StrToInt(s) ==
    IF \E n \in Numerals : NumeralText[n] = s
    THEN Some(CHOOSE n \in Numerals : NumeralText[n] = s)
    ELSE None

(* ------------------------------ upstream ------------------------------ *)
\* the ids the search endpoint answers with; 0 is the one id that `if m_id`
\* (line 86) takes for no id
MovieIds == {0, 7, 8, 9}
\* GET /movie/{id}/credits: the crew of each movie; gender is the upstream
\* integer code, None when the entry carries no "gender" field
CreditsOf(id) ==
    CASE id = 7 -> << [name |-> "Eve", gender |-> Some(1), job |-> "Director"],
                      [name |-> "Cy",  gender |-> Some(1), job |-> "Producer"],
                      [name |-> "Ada", gender |-> Some(1), job |-> "Director"] >>
      [] id = 8 -> << [name |-> "Ada", gender |-> Some(1), job |-> "Director"],
                      [name |-> "Bob", gender |-> Some(2), job |-> "Director"] >>
      [] id = 0 -> << [name |-> "Eve", gender |-> Some(1), job |-> "Director"] >>
      [] OTHER  -> << [name |-> "Dee", gender |-> None, job |-> "Director"] >>
\* what a request can come back with: an exception raised by client.get or
\* .json() (network error, timeout, malformed body), or a parsed body
\* "timeout": client.get raises; "malformed": .json() or the indexing raises
Failures == {"timeout", "malformed"}
\* the "results" lists of the search bodies (movie ids, best match first)
SearchBodies == {<<>>, <<7>>, <<8, 7>>, <<9>>}

(* -------------------------- director lists ---------------------------- *)
\* main.py:42-45 raises KeyError when a Director entry has no "gender" field
\* (p["gender"] is only evaluated for the entries that pass the job filter)
CrewRaises(crew) ==
    \E i \in 1 .. Len(crew) : crew[i].job = "Director" /\ crew[i].gender = None

RECURSIVE Directors(_)
\* main.py:42-45, the comprehension over crew (for a crew that does not raise)
Directors(crew) ==
    IF crew = <<>> THEN <<>>
    ELSE LET p == Head(crew)
         IN  IF p.job = "Director"
             THEN << [name |-> p.name,
                      gender |-> IF p.gender = Some(1) THEN "Female" ELSE "Other"] >>
                  \o Directors(Tail(crew))
             ELSE Directors(Tail(crew))

DirectorNames == {"Ada", "Eve", "Bob"}
DirectorDicts == [name : DirectorNames, gender : {"Female", "Other"}]
\* every director list a cache cell of this model can hold
DirectorLists ==
    {<<>>} \cup {<<d>> : d \in DirectorDicts}
           \cup {<<d, e>> : d \in DirectorDicts, e \in DirectorDicts}

RECURSIVE JsonItems(_)
JsonItems(ds) ==
    IF ds = <<>> THEN ""
    ELSE "{\"name\": \"" \o Head(ds).name \o "\", \"gender\": \""
         \o Head(ds).gender \o "\"}"
         \o (IF Tail(ds) = <<>> THEN "" ELSE ", " \o JsonItems(Tail(ds)))
\* json.dumps(directors)
JsonDumps(ds) == "[" \o JsonItems(ds) \o "]"
JsonText == [ds \in DirectorLists |-> JsonDumps(ds)]
\* json.loads of a Directors cell
JsonLoads(s) == CHOOSE ds \in DirectorLists : JsonText[ds] = s

(* ------------------------------ uploads ------------------------------- *)
UriOf(f) == "https://boxd.it/" \o f[1] \o "-" \o IntToStr(f[2])
\* a row of the uploaded CSV as pd.read_csv returns it: Name is NaN (None)
\* for an empty cell, Rating is the cell's text
RawRow(name, year, rating) ==
    [Name |-> name, Year |-> year, Rating |-> rating,
     URI |-> IF name = None THEN "https://boxd.it/x" ELSE UriOf(<<name[1], year>>)]
\* rows dropna drops: no Name, or a Rating that is not a number
JunkRows == {RawRow(None, 1, "5"), RawRow(Some("A"), 1, "n/a")}
\* the rows of the uploads of Spec: every film, one rating
RawRows == {RawRow(Some(f[1]), f[2], "4") : f \in Films} \cup JunkRows
\* the rows of the uploads of SpecAgg: every film, every rating
RatedRows == {RawRow(Some(f[1]), f[2], r) : f \in Films, r \in {"4", "5"}}
RECURSIVE SeqsUpTo(_, _)
SeqsUpTo(S, n) ==
    IF n = 0 THEN {<<>>}
    ELSE LET shorter == SeqsUpTo(S, n - 1)
         IN  shorter \cup {Append(q, e) : q \in {t \in shorter : Len(t) = n - 1}, e \in S}
\* the files a client uploads in Spec and SpecBatch list a row once
Uploads ==
    {q \in SeqsUpTo(RawRows, MaxRecords) : \A i, j \in 1 .. Len(q) : q[i] = q[j] => i = j}
\* the files of SpecAgg can repeat a film
RatedUploads == SeqsUpTo(RatedRows, AggRecords)
\* the two films of the uploads of SpecPar (their keys are the same text)
ParFilms == {<<"A", 11>>, <<"A1", 1>>}
\* the files the two clients of SpecPar upload
ParUploads ==
    {q \in Uploads :
        /\ Len(q) <= ParRecords
        /\ \A i \in 1 .. Len(q) : q[i] \in {RawRow(Some(f[1]), f[2], "4") : f \in ParFilms}}
\* the one large upload: GateBatch different films, all unknown to the cache
GateUpload == [i \in 1 .. GateBatch |-> RawRow(Some("G"), i, "4")]

(* ---------------------- lines 54-57: user frame ----------------------- *)
\* pd.to_numeric(..., errors="coerce") on one Rating cell
ToNumeric(cell) == StrToInt(cell)
\* the cache key of a row: Name.astype(str) + Year.astype(str)
Key(name, year) == name \o IntToStr(year)
RECURSIVE CleanUser(_)
\* to_numeric, dropna(subset=["Name", "Rating"]) and the key column
CleanUser(raw) ==
    IF raw = <<>> THEN <<>>
    ELSE LET r == Head(raw)
             rating == ToNumeric(r.Rating)
         IN  IF r.Name = None \/ rating = None
             THEN CleanUser(Tail(raw))
             ELSE << [Name |-> r.Name[1], Year |-> r.Year, Rating |-> rating[1],
                      URI |-> r.URI, key |-> Key(r.Name[1], r.Year)] >>
                  \o CleanUser(Tail(raw))

(* --------------------------- the cache file --------------------------- *)
\* (mutant) <NA> is written as 0
IdToCellZero(v) == IF v = None THEN "0" ELSE IntToStr(v[1])
\* one TMDB_ID cell as to_csv writes an Int64 value, <NA> as the empty cell
IdToCell(v) == IF v = None THEN "" ELSE IntToStr(v[1])
\* one TMDB_ID cell as read_csv parses it: the empty cell is <NA> / NaN
CellToId(s) == IF s = "" THEN None ELSE StrToInt(s)
\* pd.read_csv(CACHE_FILE, ...): the rows of the file, parsed
ReadCsv(file) ==
    [i \in 1 .. Len(file) |->
        [Name |-> file[i].Name, Year |-> StrToInt(file[i].Year)[1],
         URI |-> file[i].URI, TMDB_ID |-> CellToId(file[i].TMDB_ID),
         Directors |-> file[i].Directors]]
\* DataFrame.to_csv(CACHE_FILE, index=False): the rows as text cells
ToCsv(rows) ==
    [i \in 1 .. Len(rows) |->
        [Name |-> rows[i].Name, Year |-> IntToStr(rows[i].Year),
         URI |-> rows[i].URI, TMDB_ID |-> IdToCell(rows[i].TMDB_ID),
         Directors |-> rows[i].Directors]]
\* the key column of the cache frame (line 65), as a set
CacheKeys(file) ==
    LET rows == ReadCsv(file)
    IN  {Key(rows[i].Name, rows[i].Year) : i \in 1 .. Len(rows)}
\* the (Name, Year) pairs with a row in the file
CachePairs(file) ==
    LET rows == ReadCsv(file)
    IN  {<<rows[i].Name, rows[i].Year>> : i \in 1 .. Len(rows)}

(* ------------------- lines 67-68: what is fetched --------------------- *)
\* (mutant) every row of the upload is fetched, known or not
ToFetchAll(df, file) == df
\* (mutant) rows whose lookup found nothing do not count as known
ToFetchRetryingNulls(df, file) ==
    LET rows == ReadCsv(file)
        keys == {Key(rows[i].Name, rows[i].Year) :
                    i \in {j \in 1 .. Len(rows) : rows[j].TMDB_ID # None}}
        Unknown[k \in 0 .. Len(df)] ==
            IF k = 0 THEN <<>>
            ELSE IF df[k].key \in keys THEN Unknown[k - 1]
            ELSE Append(Unknown[k - 1], df[k])
    IN  Unknown[Len(df)]
RECURSIVE SelectUnknown(_, _)
SelectUnknown(df, keys) ==
    IF df = <<>> THEN <<>>
    ELSE IF Head(df).key \in keys THEN SelectUnknown(Tail(df), keys)
    ELSE <<Head(df)>> \o SelectUnknown(Tail(df), keys)
\* to_fetch = df_user[~df_user["key"].isin(cache_df["key"])]
ToFetch(df, file) == SelectUnknown(df, CacheKeys(file))

(* ----------------- lines 78-97: new rows and the save ----------------- *)
\* int(m_id) if m_id else None
StoredId(m_id) == IF m_id = None \/ m_id = Some(0) THEN None ELSE m_id
\* the row appended for to_fetch row i and api_results[i]
NewRow(row, res) ==
    [Name |-> row.Name, Year |-> row.Year, URI |-> row.URI,
     TMDB_ID |-> StoredId(res.m_id), Directors |-> JsonDumps(res.directors)]
NewRows(to_fetch, api_results) ==
    [i \in 1 .. Len(to_fetch) |-> NewRow(to_fetch[i], api_results[i])]
\* (mutant) a new row replaces the rows already stored for its film
SaveCacheUpsert(file, new_rows) ==
    LET old == ReadCsv(file)
        Kept[k \in 0 .. Len(old)] ==
            IF k = 0 THEN <<>>
            ELSE IF \E i \in 1 .. Len(new_rows) :
                        new_rows[i].Name = old[k].Name /\ new_rows[i].Year = old[k].Year
                 THEN Kept[k - 1]
                 ELSE Append(Kept[k - 1], old[k])
    IN  ToCsv(Kept[Len(old)] \o new_rows)
\* (mutant) the new rows are written without the rows already in the file
SaveCacheNewOnly(file, new_rows) == ToCsv(new_rows)
\* pd.concat([pd.read_csv(CACHE_FILE), pd.DataFrame(new_rows)]), astype("Int64")
\* and to_csv
SaveCache(file, new_rows) == ToCsv(ReadCsv(file) \o new_rows)

(* ---------------------- lines 99-104: the merge ----------------------- *)
\* full_cache: read with TMDB_ID as Int64, Directors through json.loads
FullCache(file) ==
    LET rows == ReadCsv(file)
    IN  [i \in 1 .. Len(rows) |->
            [Name |-> rows[i].Name, Year |-> rows[i].Year,
             TMDB_ID |-> rows[i].TMDB_ID, Directors |-> JsonLoads(rows[i].Directors)]]
RECURSIVE MatchRows(_, _)
\* the rows of the inner join for one user row, in cache order
MatchRows(u, cache) ==
    IF cache = <<>> THEN <<>>
    ELSE (IF Head(cache).Name = u.Name /\ Head(cache).Year = u.Year
          THEN << [Name |-> u.Name, Year |-> u.Year, Rating |-> u.Rating,
                   URI |-> u.URI, key |-> u.key,
                   TMDB_ID |-> Head(cache).TMDB_ID,
                   Directors |-> Head(cache).Directors] >>
          ELSE <<>>)
         \o MatchRows(u, Tail(cache))
RECURSIVE MergeRows(_, _)
\* df_user.merge(full_cache[...], on=["Name", "Year"]): inner join, left order
MergeRows(df, cache) ==
    IF df = <<>> THEN <<>>
    ELSE MatchRows(Head(df), cache) \o MergeRows(Tail(df), cache)
Merge(df, file) == MergeRows(df, FullCache(file))

(* -------------------- lines 106-150: the statistics ------------------- *)
RECURSIVE FemaleNamesOf(_)
FemaleNamesOf(ds) ==
    IF ds = <<>> THEN <<>>
    ELSE (IF Head(ds).gender = "Female" THEN <<Head(ds).name>> ELSE <<>>)
         \o FemaleNamesOf(Tail(ds))
RECURSIVE RatingsOf(_, _, _)
\* the ratings one merged row appends for its directors of one bucket
RatingsOf(ds, rating, female) ==
    IF ds = <<>> THEN <<>>
    ELSE (IF (Head(ds).gender = "Female") = female THEN <<rating>> ELSE <<>>)
         \o RatingsOf(Tail(ds), rating, female)
RECURSIVE FemaleDirectorList(_)
\* female_director_list after the loop of lines 110-118
FemaleDirectorList(merged) ==
    IF merged = <<>> THEN <<>>
    ELSE FemaleNamesOf(Head(merged).Directors) \o FemaleDirectorList(Tail(merged))
\* (mutant) one rating per film that has a director of the bucket
BucketPerFilm(merged, female) ==
    LET B[k \in 0 .. Len(merged)] ==
            IF k = 0 THEN <<>>
            ELSE IF \E j \in 1 .. Len(merged[k].Directors) :
                        (merged[k].Directors[j].gender = "Female") = female
                 THEN Append(B[k - 1], merged[k].Rating)
                 ELSE B[k - 1]
    IN  B[Len(merged)]
RECURSIVE Bucket(_, _)
\* female_ratings (female = TRUE) or other_ratings after the loop
Bucket(merged, female) ==
    IF merged = <<>> THEN <<>>
    ELSE RatingsOf(Head(merged).Directors, Head(merged).Rating, female)
         \o Bucket(Tail(merged), female)

RECURSIVE SumSeq(_)
SumSeq(q) == IF q = <<>> THEN 0 ELSE Head(q) + SumSeq(Tail(q))
RECURSIVE Gcd(_, _)
Gcd(a, b) == IF b = 0 THEN a ELSE Gcd(b, a % b)
\* a quotient as a fraction in lowest terms
Ratio(n, d) == [num |-> n \div Gcd(n, d), den |-> d \div Gcd(n, d)]
\* sum(xs)/len(xs) if xs else 0
Average(xs) == IF xs = <<>> THEN Ratio(0, 1) ELSE Ratio(SumSeq(xs), Len(xs))

\* Counter(names)[n]
CountOf(names, n) == Cardinality({i \in 1 .. Len(names) : names[i] = n})
\* (mutant) among equal counts the key inserted last
MostCommonLast(names) ==
    IF names = <<>> THEN None
    ELSE LET best == CHOOSE c \in 1 .. Len(names) :
                        /\ \E i \in 1 .. Len(names) : CountOf(names, names[i]) = c
                        /\ \A i \in 1 .. Len(names) : CountOf(names, names[i]) <= c
             last == CHOOSE i \in 1 .. Len(names) :
                        /\ CountOf(names, names[i]) = best
                        /\ \A j \in 1 .. i - 1 : names[j] # names[i]
                        /\ \A j \in i + 1 .. Len(names) :
                              CountOf(names, names[j]) = best => names[j] = names[i]
         IN  Some([name |-> names[last], watch_count |-> best])
\* Counter(names).most_common(1): the highest count, the first inserted key
\* among equal counts; None for an empty Counter
MostCommon(names) ==
    IF names = <<>> THEN None
    ELSE LET best == CHOOSE c \in 1 .. Len(names) :
                        /\ \E i \in 1 .. Len(names) : CountOf(names, names[i]) = c
                        /\ \A i \in 1 .. Len(names) : CountOf(names, names[i]) <= c
             first == CHOOSE i \in 1 .. Len(names) :
                        /\ CountOf(names, names[i]) = best
                        /\ \A j \in 1 .. i - 1 : CountOf(names, names[j]) < best
         IN  Some([name |-> names[first], watch_count |-> best])

AnyFemale(ds) == \E i \in 1 .. Len(ds) : ds[i].gender = "Female"
RECURSIVE SelectFemaleDirected(_)
\* female_directed_df, lines 126-130
SelectFemaleDirected(merged) ==
    IF merged = <<>> THEN <<>>
    ELSE (IF AnyFemale(Head(merged).Directors) THEN <<Head(merged)>> ELSE <<>>)
         \o SelectFemaleDirected(Tail(merged))
RECURSIVE SelectRating(_, _)
SelectRating(rows, r) ==
    IF rows = <<>> THEN <<>>
    ELSE (IF Head(rows).Rating = r THEN <<Head(rows)>> ELSE <<>>)
         \o SelectRating(Tail(rows), r)
\* fillna(0).astype(int)
FillNa0(id) == IF id = None THEN 0 ELSE id[1]
\* one record of best_df[[...]].to_dict(orient="records")
PickRecord(row) ==
    [Name |-> row.Name, Year |-> row.Year, TMDB_ID |-> FillNa0(row.TMDB_ID),
     Rating |-> row.Rating, URI |-> row.URI]
\* top_female_picks, lines 132-141
TopFemalePicks(merged) ==
    LET fd == SelectFemaleDirected(merged)
    IN  IF fd = <<>> THEN <<>>
        ELSE LET max_rating == CHOOSE r \in {fd[i].Rating : i \in 1 .. Len(fd)} :
                                  \A i \in 1 .. Len(fd) : fd[i].Rating <= r
                 best_df == SelectRating(fd, max_rating)
             IN  [i \in 1 .. Len(best_df) |-> PickRecord(best_df[i])]
\* the returned JSON body, lines 143-150
Response(merged) ==
    [female_avg |-> Average(Bucket(merged, TRUE)),
     other_avg |-> Average(Bucket(merged, FALSE)),
     most_watched_female_director |-> MostCommon(FemaleDirectorList(merged)),
     best_rated_female_directed |-> TopFemalePicks(merged)]

(* ============================ the state =============================== *)
VARIABLES
    cacheFile,    \* movie_cache.csv: the rows as text cells
    semValue,     \* semaphore._value: free slots
    semWaiters,   \* semaphore._waiters: <<request, task index>>, FIFO
    pc,           \* where each request's handler is
    df_user,      \* the cleaned user frame of each request
    to_fetch,     \* the rows each request fetches
    tasks,        \* the get_movie_data coroutines of each request's gather
    merged,       \* the merged frame of each request
    response,     \* what each request returned (None until it returns)
    runs,         \* requests started so far
    served,       \* history: the user frames of the requests that completed
    overlapped    \* history: a request started while another was in progress

vars == <<cacheFile, semValue, semWaiters, pc, df_user, to_fetch, tasks,
          merged, response, runs, served, overlapped>>

\* get_movie_data's return value on "no results" and on any exception
NullResult == [m_id |-> None, directors |-> <<>>]

\* (mutant) an acquire that never blocks
LockedNever(value, waiters) == FALSE
\* Semaphore.locked(): no free slot, or somebody is already queued
Locked(value, waiters) == value = 0 \/ waiters # <<>>

RECURSIVE StartTasks(_, _, _, _, _)
\* asyncio.gather starts the coroutines in order; each runs up to its first
\* suspension: `async with semaphore` admits it (and it awaits the search
\* request) or queues it on the semaphore
StartTasks(p, n, i, value, waiters) ==
    IF i > n THEN [tasks |-> <<>>, value |-> value, waiters |-> waiters]
    ELSE IF Locked(value, waiters)
    THEN LET rest == StartTasks(p, n, i + 1, value, Append(waiters, <<p, i>>))
         IN  [rest EXCEPT !.tasks =
                 <<[st |-> "waiting", movie_id |-> None, err |-> None, result |-> None]>> \o @]
    ELSE LET rest == StartTasks(p, n, i + 1, value - 1, waiters)
         IN  [rest EXCEPT !.tasks =
                 <<[st |-> "search", movie_id |-> None, err |-> None, result |-> None]>> \o @]

Init ==
    /\ cacheFile = <<>>
    /\ semValue = SemaphoreSlots
    /\ semWaiters = <<>>
    /\ pc = [p \in Procs |-> "idle"]
    /\ df_user = [p \in Procs |-> <<>>]
    /\ to_fetch = [p \in Procs |-> <<>>]
    /\ tasks = [p \in Procs |-> <<>>]
    /\ merged = [p \in Procs |-> <<>>]
    /\ response = [p \in Procs |-> None]
    /\ runs = 0
    /\ served = {}
    /\ overlapped = FALSE

\* lines 52-76 (and 99-150 when nothing is to fetch): a request arrives with
\* the uploaded file `raw`; no suspension point up to the gather
Analyze(p, raw) ==
    /\ pc[p] = "idle"
    /\ runs' = runs + 1
    /\ overlapped' = (overlapped \/ \E q \in Procs \ {p} : pc[q] \in {"gather", "close"})
    /\ LET df == CleanUser(raw)
           tf == ToFetch(df, cacheFile)
       IN  /\ df_user' = [df_user EXCEPT ![p] = df]
           /\ to_fetch' = [to_fetch EXCEPT ![p] = tf]
           /\ IF tf = <<>>
              THEN /\ merged' = [merged EXCEPT ![p] = Merge(df, cacheFile)]
                   /\ response' = [response EXCEPT ![p] = Some(Response(merged'[p]))]
                   /\ pc' = [pc EXCEPT ![p] = "done"]
                   /\ served' = served \cup {df}
                   /\ UNCHANGED <<tasks, semValue, semWaiters>>
              ELSE LET st == StartTasks(p, Len(tf), 1, semValue, semWaiters)
                   IN  /\ tasks' = [tasks EXCEPT ![p] = st.tasks]
                       /\ semValue' = st.value
                       /\ semWaiters' = st.waiters
                       /\ pc' = [pc EXCEPT ![p] = "gather"]
                       /\ UNCHANGED <<merged, response, served>>
    /\ UNCHANGED cacheFile

\* (mutant) a fetch that ends in an exception ends its siblings with it
FinishCancelling(p, i, task) ==
    /\ tasks' = [tasks EXCEPT ![p] =
                    [j \in 1 .. Len(@) |->
                        IF j = i THEN task
                        ELSE IF task.err = None \/ @[j].st = "done" THEN @[j]
                        ELSE [@[j] EXCEPT !.st = "done", !.result = Some(NullResult)]]]
    /\ semValue' = semValue + Cardinality({j \in 1 .. Len(tasks[p]) :
                        /\ tasks[p][j].st \in {"search", "credits"}
                        /\ tasks'[p][j].st = "done"})
    /\ UNCHANGED semWaiters
\* (mutant) the slot is released on the return paths only, not when an
\* exception was caught
FinishLeaking(p, i, task) ==
    LET done == [tasks EXCEPT ![p][i] = task]
    IN  IF task.err # None
        THEN /\ tasks' = done
             /\ UNCHANGED <<semValue, semWaiters>>
        ELSE IF semWaiters = <<>>
        THEN /\ semValue' = semValue + 1
             /\ tasks' = done
             /\ UNCHANGED semWaiters
        ELSE /\ semWaiters' = Tail(semWaiters)
             /\ tasks' = [done EXCEPT ![Head(semWaiters)[1]][Head(semWaiters)[2]].st = "search"]
             /\ UNCHANGED semValue
\* task i of request p leaves `async with semaphore` with `task` as its final
\* state: Semaphore.release() frees the slot or hands it to the first waiter,
\* which then awaits its search request
Finish(p, i, task) ==
    LET done == [tasks EXCEPT ![p][i] = task]
    IN  IF semWaiters = <<>>
        THEN /\ semValue' = semValue + 1
             /\ tasks' = done
             /\ UNCHANGED semWaiters
        ELSE /\ semWaiters' = Tail(semWaiters)
             /\ tasks' = [done EXCEPT ![Head(semWaiters)[1]][Head(semWaiters)[2]].st = "search"]
             /\ UNCHANGED semValue

\* `return ...` inside the try block (lines 35 and 46)
Returned(task, res) == [task EXCEPT !.st = "done", !.result = Some(res)]
\* (mutant) no except clause: the exception leaves the coroutine
CaughtNot(task, e) == [task EXCEPT !.st = "raised", !.err = Some(e)]
\* lines 47-49: `except Exception as e` prints and returns None, []
Caught(task, e) == [task EXCEPT !.st = "done", !.err = Some(e), !.result = Some(NullResult)]

\* what a search request comes back with: an exception, or a body with its
\* "results" list
Failed(e) == [error |-> e, results |-> <<>>]
Body(results) == [error |-> "", results |-> results]

\* lines 29-37: the search request of task i comes back with `r`
SearchResponse(p, i, r) ==
    /\ pc[p] = "gather"
    /\ i \in 1 .. Len(tasks[p])
    /\ tasks[p][i].st = "search"
    /\ IF r.error # ""
       THEN Finish(p, i, Caught(tasks[p][i], r.error))
       ELSE IF r.results = <<>>
       THEN Finish(p, i, Returned(tasks[p][i], NullResult))
       ELSE /\ tasks' = [tasks EXCEPT ![p][i].st = "credits",
                                      ![p][i].movie_id = Some(r.results[1])]
            /\ UNCHANGED <<semValue, semWaiters>>
    /\ UNCHANGED <<cacheFile, pc, df_user, to_fetch, merged, response, runs, served,
                   overlapped>>

\* lines 39-49: the credits request of task i comes back with `r`, a failure
\* or "crew" for the crew list of the movie
CreditsResponse(p, i, r) ==
    /\ pc[p] = "gather"
    /\ i \in 1 .. Len(tasks[p])
    /\ tasks[p][i].st = "credits"
    /\ LET crew == CreditsOf(tasks[p][i].movie_id[1])
       IN  IF r \in Failures
           THEN Finish(p, i, Caught(tasks[p][i], r))
           ELSE IF CrewRaises(crew)
           THEN Finish(p, i, Caught(tasks[p][i], "KeyError"))
           ELSE Finish(p, i, Returned(tasks[p][i],
                    [m_id |-> tasks[p][i].movie_id, directors |-> Directors(crew)]))
    /\ UNCHANGED <<cacheFile, pc, df_user, to_fetch, merged, response, runs, served,
                   overlapped>>

\* (mutant) the results in the reverse of the task order
ApiResultsReversed(ts) == [i \in 1 .. Len(ts) |-> ts[Len(ts) + 1 - i].result[1]]
\* api_results, in task order
ApiResults(ts) == [i \in 1 .. Len(ts) |-> ts[i].result[1]]

\* (mutant) the file is rewritten with the new rows alone, without being
\* read again
SaveOverwriting(p) ==
    /\ pc[p] = "gather"
    /\ \A i \in 1 .. Len(tasks[p]) : tasks[p][i].st = "done"
    /\ cacheFile' = ToCsv(NewRows(to_fetch[p], ApiResults(tasks[p])))
    /\ pc' = [pc EXCEPT ![p] = "close"]
    /\ UNCHANGED <<semValue, semWaiters, df_user, to_fetch, tasks, merged, response, runs,
                   served, overlapped>>
\* (mutant) the save goes ahead as soon as one fetch has resolved, with
\* None, [] for the fetches still in flight
SaveEarly(p) ==
    /\ pc[p] = "gather"
    /\ \E i \in 1 .. Len(tasks[p]) : tasks[p][i].st = "done"
    /\ cacheFile' = SaveCache(cacheFile,
                        NewRows(to_fetch[p],
                                [i \in 1 .. Len(tasks[p]) |->
                                    IF tasks[p][i].st = "done" THEN tasks[p][i].result[1]
                                    ELSE NullResult]))
    /\ pc' = [pc EXCEPT ![p] = "close"]
    /\ UNCHANGED <<semValue, semWaiters, df_user, to_fetch, tasks, merged, response, runs,
                   served, overlapped>>
\* lines 76-97: gather returns once every task has; new_rows are built and
\* the file is re-read, extended and rewritten, with no suspension between
Save(p) ==
    /\ pc[p] = "gather"
    /\ \A i \in 1 .. Len(tasks[p]) : tasks[p][i].st = "done"
    /\ cacheFile' = SaveCache(cacheFile, NewRows(to_fetch[p], ApiResults(tasks[p])))
    /\ pc' = [pc EXCEPT ![p] = "close"]
    /\ UNCHANGED <<semValue, semWaiters, df_user, to_fetch, tasks, merged, response, runs,
                   served, overlapped>>

\* lines 99-150, after the AsyncClient is closed (leaving `async with`
\* awaits the close of its connections)
Respond(p) ==
    /\ pc[p] = "close"
    /\ merged' = [merged EXCEPT ![p] = Merge(df_user[p], cacheFile)]
    /\ response' = [response EXCEPT ![p] = Some(Response(merged'[p]))]
    /\ pc' = [pc EXCEPT ![p] = "done"]
    /\ served' = served \cup {df_user[p]}
    /\ UNCHANGED <<cacheFile, semValue, semWaiters, df_user, to_fetch, tasks, runs,
                   overlapped>>

\* the response has been sent; the handler's frame is gone
Return(p) ==
    /\ pc[p] = "done"
    /\ pc' = [pc EXCEPT ![p] = "idle"]
    /\ df_user' = [df_user EXCEPT ![p] = <<>>]
    /\ to_fetch' = [to_fetch EXCEPT ![p] = <<>>]
    /\ tasks' = [tasks EXCEPT ![p] = <<>>]
    /\ merged' = [merged EXCEPT ![p] = <<>>]
    /\ response' = [response EXCEPT ![p] = None]
    /\ UNCHANGED <<cacheFile, semValue, semWaiters, runs, served, overlapped>>

\* what to_csv (line 97) can leave in the file when the write fails: the file
\* is opened for writing, which empties it, and the rows are written in order
PartialWrites(rows) == {SubSeq(rows, 1, k) : k \in 0 .. Len(rows) - 1}

\* lines 91-97 with an OSError out of to_csv: nothing catches it, the handler
\* raises (the client gets a 500) and the file keeps what had been written
SaveFails(p) ==
    /\ pc[p] = "gather"
    /\ \A i \in 1 .. Len(tasks[p]) : tasks[p][i].st = "done"
    /\ \E w \in PartialWrites(SaveCache(cacheFile, NewRows(to_fetch[p], ApiResults(tasks[p])))) :
          cacheFile' = w
    /\ pc' = [pc EXCEPT ![p] = "failed"]
    /\ UNCHANGED <<semValue, semWaiters, df_user, to_fetch, tasks, merged, response, runs,
                   served, overlapped>>

\* pd.read_csv(CACHE_FILE) of line 93 or line 100 raises: the handler raises
ReadFails(p) ==
    /\ \/ pc[p] = "close"
       \/ /\ pc[p] = "gather"
          /\ \A i \in 1 .. Len(tasks[p]) : tasks[p][i].st = "done"
    /\ pc' = [pc EXCEPT ![p] = "failed"]
    /\ UNCHANGED <<cacheFile, semValue, semWaiters, df_user, to_fetch, tasks, merged,
                   response, runs, served, overlapped>>

\* the exception has left the handler; its frame is gone
Abort(p) ==
    /\ pc[p] = "failed"
    /\ pc' = [pc EXCEPT ![p] = "idle"]
    /\ df_user' = [df_user EXCEPT ![p] = <<>>]
    /\ to_fetch' = [to_fetch EXCEPT ![p] = <<>>]
    /\ tasks' = [tasks EXCEPT ![p] = <<>>]
    /\ UNCHANGED <<cacheFile, semValue, semWaiters, merged, response, runs, served,
                   overlapped>>

\* what happens to a request once it has arrived; Bodies(row) are the results
\* lists the search endpoint can answer the query for `row` with, Fails(row)
\* the ways a request made for `row` can fail
Step(p, Bodies(_), Fails(_)) ==
    \/ \E i \in 1 .. Len(tasks[p]) :
          \E r \in {Failed(e) : e \in Fails(to_fetch[p][i])}
                        \cup {Body(b) : b \in Bodies(to_fetch[p][i])} :
              SearchResponse(p, i, r)
    \/ \E i \in 1 .. Len(tasks[p]) :
          \E r \in Fails(to_fetch[p][i]) \cup {"crew"} : CreditsResponse(p, i, r)
    \/ Save(p)
    \/ Respond(p)
    \/ Return(p)

\* any film can be unknown upstream, match the two-director movie 8, or match
\* the movie with id 0
PlainBodies(row) == {<<>>, <<8, 7>>, <<0>>}
\* a request can time out
TimeoutOnly(row) == {"timeout"}
\* one client, one request after the other
Next ==
    \/ \E raw \in Uploads : runs < MaxRuns /\ Analyze("p1", raw)
    \/ Step("p1", PlainBodies, TimeoutOnly)

Spec == Init /\ [][Next]_vars

\* any request can fail in any way
AnyFailure(row) == Failures
\* one request, whose fetches fail in every way
NextBatch ==
    \/ \E raw \in Uploads : runs = 0 /\ Analyze("p1", raw)
    \/ Step("p1", PlainBodies, AnyFailure)

SpecBatch == Init /\ [][NextBatch]_vars

\* one client, one request after the other, on a disk whose reads and writes
\* can fail
NextStore ==
    \/ \E raw \in Uploads : runs < MaxRuns /\ Analyze("p1", raw)
    \/ Step("p1", PlainBodies, TimeoutOnly)
    \/ SaveFails("p1")
    \/ ReadFails("p1")
    \/ Abort("p1")

SpecStore == Init /\ [][NextStore]_vars

\* every film matches the two-director movie 8
FoundBody(row) == {<<8, 7>>}
\* two clients whose requests can overlap, on the same films
NextPar ==
    \/ \E p \in Procs : \E raw \in ParUploads : runs < MaxRuns /\ Analyze(p, raw)
    \/ \E p \in Procs : Step(p, FoundBody, TimeoutOnly)

SpecPar == Init /\ [][NextPar]_vars

AnyBody(row) == SearchBodies
\* one request, an upload with different ratings, every search body
NextAgg ==
    \/ \E raw \in RatedUploads : runs = 0 /\ Analyze("p1", raw)
    \/ Step("p1", AnyBody, TimeoutOnly)

SpecAgg == Init /\ [][NextAgg]_vars

\* the large upload: only its first film is known upstream
GateBodies(row) == IF row.Year = 1 THEN {<<7>>} ELSE {<<>>}
\* only the requests made for its first film fail
GateFailures(row) == IF row.Year = 1 THEN Failures ELSE {}
\* one client uploads GateBatch unknown films while another uploads one
NextGate ==
    \/ runs < MaxRuns /\ Analyze("p1", GateUpload)
    \/ runs < MaxRuns /\ Analyze("p2", <<RawRow(Some("G"), GateBatch + 1, "4")>>)
    \/ \E p \in Procs : Step(p, GateBodies, GateFailures)

SpecGate == Init /\ [][NextGate]_vars

\* one client uploads GateBatch unknown films, once
NextQueue ==
    \/ runs = 0 /\ Analyze("p1", GateUpload)
    \/ Step("p1", GateBodies, GateFailures)

SpecQueue == Init /\ [][NextQueue]_vars
\* the same, where every request to the API eventually comes back and the
\* event loop runs every coroutine that can run
FairQueue == SpecQueue /\ WF_vars(Step("p1", GateBodies, GateFailures))

(* ============================== claims =============================== *)
\* the fetches admitted past the semaphore: their request is being made or
\* awaited
Admitted ==
    {<<p, i>> \in Procs \X (1 .. GateBatch + 1) :
        /\ i <= Len(tasks[p])
        /\ tasks[p][i].st \in {"search", "credits"}}

\* C1: over all requests in progress, at most SemaphoreSlots (10) fetches are
\* admitted past the semaphore at any time, and each of them holds one slot:
\* the free slots and the admitted fetches always add up to 10.
C1_GateBound ==
    /\ Cardinality(Admitted) <= SemaphoreSlots
    /\ semValue >= 0
    /\ semValue + Cardinality(Admitted) = SemaphoreSlots
\* ten fetches of two overlapping requests hold every slot, another queues
C1_Witness ==
    /\ Cardinality(Admitted) = SemaphoreSlots
    /\ semWaiters # <<>>
    /\ \E i \in 1 .. Len(tasks["p1"]) : <<"p1", i>> \in Admitted
    /\ \E i \in 1 .. Len(tasks["p2"]) : <<"p2", i>> \in Admitted

\* C2: a request for a user frame whose request has already completed fetches
\* nothing and leaves the cache file as it is; and a save stores a lookup
\* that failed or found nothing with an empty TMDB_ID cell and no directors,
\* as one more row (which makes the key known).
C2_Idempotent ==
    [][\A p \in Procs :
        /\ (pc[p] = "idle" /\ pc'[p] # "idle" /\ df_user'[p] \in served)
              => /\ tasks'[p] = <<>>
                 /\ to_fetch'[p] = <<>>
                 /\ cacheFile' = cacheFile
                 /\ pc'[p] = "done"
        /\ (pc[p] = "gather" /\ pc'[p] = "close")
              => /\ Len(cacheFile') = Len(cacheFile) + Len(tasks[p])
                 /\ \A i \in 1 .. Len(tasks[p]) :
                       tasks[p][i].result = Some(NullResult)
                         => /\ cacheFile'[Len(cacheFile) + i].TMDB_ID = ""
                            /\ cacheFile'[Len(cacheFile) + i].Directors = "[]"
                            /\ cacheFile'[Len(cacheFile) + i].Name = to_fetch[p][i].Name]_vars
\* the second request for the same frame has completed without a fetch,
\* and a key of the frame is stored with a failed lookup
C2_Witness ==
    /\ runs = 2
    /\ pc["p1"] = "done"
    /\ df_user["p1"] # <<>>
    /\ served = {df_user["p1"]}
    /\ tasks["p1"] = <<>>
    /\ \E i \in 1 .. Len(cacheFile) :
          /\ cacheFile[i].TMDB_ID = ""
          /\ cacheFile[i].Name = df_user["p1"][1].Name
          /\ cacheFile[i].Year = IntToStr(df_user["p1"][1].Year)

\* C3: no step removes or changes a row of the cache file, so the set of
\* (Name, Year) pairs with a row in it only grows.
C3_Monotone ==
    [][/\ Len(cacheFile') >= Len(cacheFile)
       /\ \A i \in 1 .. Len(cacheFile) : cacheFile'[i] = cacheFile[i]
       /\ CachePairs(cacheFile) \subseteq CachePairs(cacheFile')]_vars
\* a second request has saved its rows after the rows of the first
C3_Witness ==
    /\ runs = 2
    /\ pc["p1"] = "close"
    /\ Len(cacheFile) > Len(tasks["p1"])
    /\ Cardinality(CachePairs(cacheFile)) >= 2

\* C4: (the claim, which the code does not meet) once a request is done, every
\* row of its user frame is joined to a cache row of its own Name and Year.
C4_Coverage ==
    \A p \in Procs :
        pc[p] = "done" =>
            \A k \in 1 .. Len(df_user[p]) :
                \E j \in 1 .. Len(merged[p]) :
                    /\ merged[p][j].Name = df_user[p][k].Name
                    /\ merged[p][j].Year = df_user[p][k].Year
                    /\ merged[p][j].Rating = df_user[p][k].Rating

\* what the upstream answers of a fetch that did not fail amount to
Expected(task) ==
    IF task.movie_id = None THEN NullResult
    ELSE [m_id |-> StoredId(task.movie_id),
          directors |-> Directors(CreditsOf(task.movie_id[1]))]
\* the step in which fetch i of request p ends in a caught exception
FailsNow(p, i) ==
    /\ i <= Len(tasks[p])
    /\ tasks[p][i].st # "done"
    /\ tasks'[p][i].st = "done"
    /\ tasks'[p][i].err # None

\* C5: the step in which one fetch of a batch fails leaves the request in its
\* gather and every other fetch of the batch as it was (or admits it from the
\* queue); and once the request is done, every fetch of the batch that did
\* not fail itself is joined with the id and directors its own upstream
\* answers give, whatever happened to the other fetches.
C5_Isolation ==
    /\ [][\A p \in Procs : \A i \in 1 .. MaxRecords + 1 :
            FailsNow(p, i) =>
                /\ pc'[p] = "gather"
                /\ cacheFile' = cacheFile
                /\ Len(tasks'[p]) = Len(tasks[p])
                /\ \A j \in (1 .. Len(tasks[p])) \ {i} :
                      \/ tasks'[p][j] = tasks[p][j]
                      \/ /\ tasks[p][j].st = "waiting"
                         /\ tasks'[p][j] = [tasks[p][j] EXCEPT !.st = "search"]]_vars
    /\ [](\A p \in Procs :
            pc[p] = "done" =>
                \A j \in 1 .. Len(tasks[p]) :
                    tasks[p][j].err = None =>
                        \E m \in 1 .. Len(merged[p]) :
                            /\ merged[p][m].Name = to_fetch[p][j].Name
                            /\ merged[p][m].Year = to_fetch[p][j].Year
                            /\ merged[p][m].TMDB_ID = Expected(tasks[p][j]).m_id
                            /\ merged[p][m].Directors = Expected(tasks[p][j]).directors)
\* a request is done whose first fetch failed while its second found a movie
C5_Witness ==
    /\ pc["p1"] = "done"
    /\ Len(tasks["p1"]) = 2
    /\ tasks["p1"][1].err # None
    /\ tasks["p1"][2].err = None
    /\ tasks["p1"][2].result[1].m_id # None
    /\ \E m \in 1 .. Len(merged["p1"]) : merged["p1"][m].TMDB_ID # None

\* C6: no fetch ever ends with an exception leaving get_movie_data: a fetch
\* whose search or credits request failed is done and has returned None, [].
C6_Contained ==
    \A p \in Procs : \A i \in 1 .. Len(tasks[p]) :
        /\ tasks[p][i].st \in {"waiting", "search", "credits", "done"}
        /\ tasks[p][i].err # None =>
              /\ tasks[p][i].st = "done"
              /\ tasks[p][i].result = Some(NullResult)
\* one fetch failed at the search request, one at the credits request, and
\* the request went on to save and respond
C6_Witness ==
    /\ pc["p1"] = "done"
    /\ \E i, j \in 1 .. Len(tasks["p1"]) :
          /\ tasks["p1"][i].err = Some("timeout")
          /\ tasks["p1"][i].movie_id = None
          /\ tasks["p1"][j].err = Some("malformed")
          /\ tasks["p1"][j].movie_id # None

\* the (row, director) pairs of a merged frame whose director is Female
\* (female = TRUE) or Other
DirectorPairs(M, female) ==
    {x \in UNION {{<<i, j>> : j \in 1 .. Len(M[i].Directors)} : i \in 1 .. Len(M)} :
        (M[x[1]].Directors[x[2]].gender = "Female") = female}
RECURSIVE PairRatings(_, _)
\* the sum of the row's rating over a set of (row, director) pairs
PairRatings(M, S) ==
    IF S = {} THEN 0
    ELSE LET x == CHOOSE y \in S : TRUE
         IN  M[x[1]].Rating + PairRatings(M, S \ {x})
\* avg is the mean of the ratings of the pairs S, and 0 when there is none
IsMeanOf(avg, M, S) ==
    IF S = {} THEN avg = [num |-> 0, den |-> 1]
    ELSE /\ avg.den > 0
         /\ avg.num * Cardinality(S) = PairRatings(M, S) * avg.den

\* C7: in the response of a request, female_avg is the mean of the rating
\* taken once per (joined row, Female director) pair and other_avg the mean
\* taken once per (joined row, Other director) pair; a row without directors
\* counts in neither, and an average over no pair is 0.
C7_Buckets ==
    \A p \in Procs :
        pc[p] = "done" =>
            /\ IsMeanOf(response[p][1].female_avg, merged[p], DirectorPairs(merged[p], TRUE))
            /\ IsMeanOf(response[p][1].other_avg, merged[p], DirectorPairs(merged[p], FALSE))
\* a film rated 4 with two Female directors and a film rated 5 with a Female
\* and an Other director: (4 + 4 + 5) / 3 and 5 / 1
C7_Witness ==
    /\ pc["p1"] = "done"
    /\ Len(merged["p1"]) = 2
    /\ response["p1"][1].female_avg = [num |-> 13, den |-> 3]
    /\ response["p1"][1].other_avg = [num |-> 5, den |-> 1]

\* the (row, director) pairs of a merged frame with Female director `n`
Occurrences(M, n) ==
    {x \in DirectorPairs(M, TRUE) : M[x[1]].Directors[x[2]].name = n}
\* pair x comes before pair y in row order, then director order
Before(x, y) == x[1] < y[1] \/ (x[1] = y[1] /\ x[2] < y[2])

\* C8: most_watched_female_director is null exactly when no joined row has a
\* Female director; otherwise it names a Female director with the number of
\* its (row, director) pairs, no other name has more, and every other name
\* with as many is first met later.
C8_MostWatched ==
    \A p \in Procs :
        pc[p] = "done" =>
            LET M == merged[p]
                top == response[p][1].most_watched_female_director
            IN  IF DirectorPairs(M, TRUE) = {} THEN top = None
                ELSE /\ top # None
                     /\ top[1].watch_count = Cardinality(Occurrences(M, top[1].name))
                     /\ top[1].watch_count > 0
                     /\ \A n \in DirectorNames \ {top[1].name} :
                           \/ Cardinality(Occurrences(M, n)) < top[1].watch_count
                           \/ /\ Cardinality(Occurrences(M, n)) = top[1].watch_count
                              /\ \E x \in Occurrences(M, top[1].name) :
                                    \A y \in Occurrences(M, n) : Before(x, y)
\* Eve and Ada are both met twice, Eve first
C8_Witness ==
    /\ pc["p1"] = "done"
    /\ response["p1"][1].most_watched_female_director =
          Some([name |-> "Eve", watch_count |-> 2])
    /\ Cardinality(Occurrences(merged["p1"], "Ada")) = 2

\* the joined rows with a Female director and the highest rating among those
BestRows(M) ==
    {i \in 1 .. Len(M) :
        /\ AnyFemale(M[i].Directors)
        /\ \A k \in 1 .. Len(M) : AnyFemale(M[k].Directors) => M[k].Rating <= M[i].Rating}
SameRecord(x, u) ==
    x.Name = u.Name /\ x.Year = u.Year /\ x.Rating = u.Rating /\ x.URI = u.URI

\* C9: (the claim, which the code does not meet) top_female_picks holds
\* exactly the joined rows that have a Female director and the highest
\* rating among the rows that have one, and no user record more than once.
C9_TopPicks ==
    \A p \in Procs :
        pc[p] = "done" =>
            LET M == merged[p]
                picks == response[p][1].best_rated_female_directed
            IN  /\ Len(picks) = Cardinality(BestRows(M))
                /\ \A i \in BestRows(M) :
                      \E k \in 1 .. Len(picks) : SameRecord(picks[k], M[i])
                /\ \A k \in 1 .. Len(picks) :
                      \E i \in BestRows(M) : SameRecord(picks[k], M[i])
                /\ \A k \in 1 .. Len(picks) :
                      Cardinality({j \in 1 .. Len(picks) : SameRecord(picks[j], picks[k])})
                        <= Cardinality({u \in 1 .. Len(df_user[p]) :
                                            SameRecord(picks[k], df_user[p][u])})

\* the text of a stored id
IdCells == {IntToStr(id) : id \in MovieIds \ {0}}

\* C10: a TMDB_ID cell of the cache file is empty or the text of a movie id,
\* never 0; an empty cell stays empty in every step; a joined row has no id
\* exactly when a cell of its film is empty; a best-rated Female-directed row
\* without an id is a pick with id 0; and every pick carries the id of a
\* best-rated joined row of its record, 0 standing for no id.
C10_NullKept ==
    /\ [](\A i \in 1 .. Len(cacheFile) : cacheFile[i].TMDB_ID \in {""} \cup IdCells)
    /\ [][\A i \in 1 .. Len(cacheFile) :
            cacheFile[i].TMDB_ID = "" =>
                /\ i <= Len(cacheFile')
                /\ cacheFile'[i].TMDB_ID = ""]_vars
    /\ [](\A p \in Procs :
            pc[p] = "done" =>
                /\ \A m \in 1 .. Len(merged[p]) :
                      \E i \in 1 .. Len(cacheFile) :
                          /\ cacheFile[i].Name = merged[p][m].Name
                          /\ cacheFile[i].Year = IntToStr(merged[p][m].Year)
                          /\ (merged[p][m].TMDB_ID = None) = (cacheFile[i].TMDB_ID = "")
                          /\ merged[p][m].TMDB_ID # None =>
                                IntToStr(merged[p][m].TMDB_ID[1]) = cacheFile[i].TMDB_ID
                /\ \A m \in BestRows(merged[p]) :
                      merged[p][m].TMDB_ID = None =>
                          \E k \in 1 .. Len(response[p][1].best_rated_female_directed) :
                              LET x == response[p][1].best_rated_female_directed[k]
                              IN  SameRecord(x, merged[p][m]) /\ x.TMDB_ID = 0
                /\ \A k \in 1 .. Len(response[p][1].best_rated_female_directed) :
                      LET x == response[p][1].best_rated_female_directed[k]
                      IN  \E m \in BestRows(merged[p]) :
                              /\ SameRecord(x, merged[p][m])
                              /\ x.TMDB_ID = IF merged[p][m].TMDB_ID = None THEN 0
                                              ELSE merged[p][m].TMDB_ID[1])
\* the second request has saved and responded; the row the first request
\* stored without an id and with a Female director still has its empty cell,
\* and its record is a pick with id 0
C10_Witness ==
    /\ runs = 2
    /\ pc["p1"] = "done"
    /\ tasks["p1"] # <<>>
    /\ Len(cacheFile) > Len(tasks["p1"])
    /\ cacheFile[1].TMDB_ID = ""
    /\ AnyFemale(JsonLoads(cacheFile[1].Directors))
    /\ \E k \in 1 .. Len(response["p1"][1].best_rated_female_directed) :
          LET x == response["p1"][1].best_rated_female_directed[k]
          IN  /\ x.TMDB_ID = 0
              /\ x.Name = cacheFile[1].Name
              /\ IntToStr(x.Year) = cacheFile[1].Year

\* C11: (the claim, which the code does not meet) a request that failed on
\* the cache file has returned nothing, and every step leaves the file as it
\* was or with the complete result of one request's append.
C11_Atomic ==
    /\ [](\A p \in Procs : pc[p] = "failed" => response[p] = None)
    /\ [][\/ cacheFile' = cacheFile
          \/ \E p \in Procs :
                /\ pc[p] = "gather"
                /\ \A i \in 1 .. Len(tasks[p]) : tasks[p][i].st = "done"
                /\ cacheFile' = SaveCache(cacheFile,
                                          NewRows(to_fetch[p], ApiResults(tasks[p])))]_vars

\* the (Name, Year) pairs of the rows of a frame
PairsOf(df) == {<<df[i].Name, df[i].Year>> : i \in 1 .. Len(df)}

\* C12: (the claim, which the code does not meet) a request has one fetch for
\* each (Name, Year) pair it found missing, and no two for the same pair;
\* once it has saved, the file has one more row for each of these pairs.
C12_OneFetchPerKey ==
    \A p \in Procs :
        /\ Len(tasks[p]) = Cardinality(PairsOf(to_fetch[p]))
        /\ \A i, j \in 1 .. Len(tasks[p]) :
              (/\ to_fetch[p][i].Name = to_fetch[p][j].Name
               /\ to_fetch[p][i].Year = to_fetch[p][j].Year) => i = j
        /\ (pc[p] \in {"close", "done"} /\ runs = 1)
              => Len(cacheFile) = Cardinality(PairsOf(to_fetch[p]))

\* the fetches of request p that have not resolved
InFlight(p) == {i \in 1 .. Len(tasks[p]) : tasks[p][i].st # "done"}

\* C13: a step that changes the cache file is the save of a request none of
\* whose fetches is in flight, and a request that has saved has none in
\* flight; fetches of other requests may be.
C13_WriteAfterBatch ==
    /\ [][cacheFile' # cacheFile =>
            \E p \in Procs :
                /\ pc[p] = "gather"
                /\ pc'[p] = "close"
                /\ InFlight(p) = {}]_vars
    /\ [](\A p \in Procs : pc[p] \in {"close", "done"} => InFlight(p) = {})
\* the large request has saved, one of its fetches having failed and one
\* having waited at the gate, while a fetch of the other request is in flight
C13_Witness ==
    /\ pc["p1"] = "close"
    /\ Len(tasks["p1"]) = GateBatch
    /\ tasks["p1"][1].err # None
    /\ Len(cacheFile) >= GateBatch
    /\ pc["p2"] = "gather"
    /\ InFlight("p2") # {}

\* the pairs of rows of the cache file for the same (Name, Year)
DuplicateRows ==
    {x \in (1 .. Len(cacheFile)) \X (1 .. Len(cacheFile)) :
        /\ x[1] < x[2]
        /\ cacheFile[x[1]].Name = cacheFile[x[2]].Name
        /\ cacheFile[x[1]].Year = cacheFile[x[2]].Year}

\* C14: with uploads that list a film once, the cache file holds two rows
\* for the same (Name, Year) only after a request has started while another
\* was between its read of the file and its response.
C14_DuplicatesNeedOverlap == DuplicateRows # {} => overlapped
\* both requests have returned and the file holds two rows for one film
C14_Witness ==
    /\ DuplicateRows # {}
    /\ runs = 2
    /\ \A p \in Procs : pc[p] = "idle"

\* C15: a row stored with an id keeps its place and its cells in every step,
\* whatever lookups fail later; and the join of a request returns, for each
\* of its records, every row stored with an id for the record's film, with
\* that id and those directors.
C15_FoundKept ==
    /\ [][\A i \in 1 .. Len(cacheFile) :
            cacheFile[i].TMDB_ID # "" =>
                /\ i <= Len(cacheFile')
                /\ cacheFile'[i] = cacheFile[i]]_vars
    /\ [][\A p \in Procs :
            (pc[p] # "done" /\ pc'[p] = "done") =>
                \A k \in 1 .. Len(df_user'[p]) : \A i \in 1 .. Len(cacheFile') :
                    (/\ cacheFile'[i].Name = df_user'[p][k].Name
                     /\ cacheFile'[i].Year = IntToStr(df_user'[p][k].Year)
                     /\ cacheFile'[i].TMDB_ID # "") =>
                        \E m \in 1 .. Len(merged'[p]) :
                            /\ merged'[p][m].Name = df_user'[p][k].Name
                            /\ merged'[p][m].Year = df_user'[p][k].Year
                            /\ merged'[p][m].TMDB_ID = StrToInt(cacheFile'[i].TMDB_ID)
                            /\ JsonDumps(merged'[p][m].Directors) = cacheFile'[i].Directors]_vars
\* a lookup of a film failed after the film was stored with an id: the file
\* holds both rows, and a request has joined its record to the row with the id
C15_Witness ==
    /\ \E x \in DuplicateRows :
          cacheFile[x[1]].TMDB_ID # "" /\ cacheFile[x[2]].TMDB_ID = ""
    /\ \E p \in Procs :
          /\ pc[p] = "done"
          /\ tasks[p] # <<>>
          /\ tasks[p][1].err # None
          /\ \E m \in 1 .. Len(merged[p]) : merged[p][m].TMDB_ID = Some(8)

\* the search request of a fetch came back with an empty "results" list
NoMatch(task) == task.st = "done" /\ task.movie_id = None /\ task.err = None

\* C16: (the claim, which the code does not meet) when the one request of a
\* behaviour has saved, the row of each of its fetches has an empty TMDB_ID
\* cell exactly when the search for it came back with no match, and a row
\* with an empty TMDB_ID cell has no directors.
C16_NullIffNoMatch ==
    \A p \in Procs :
        (pc[p] \in {"close", "done"} /\ runs = 1 /\ Len(cacheFile) = Len(tasks[p])) =>
            \A i \in 1 .. Len(tasks[p]) :
                /\ (cacheFile[i].TMDB_ID = "") = NoMatch(tasks[p][i])
                /\ cacheFile[i].TMDB_ID = "" => cacheFile[i].Directors = "[]"

RECURSIVE Classified(_)
\* one director per crew entry whose job is "Director", in crew order: Female
\* for gender code 1, Other for any other code and for no code
Classified(crew) ==
    IF crew = <<>> THEN <<>>
    ELSE (IF Head(crew).job # "Director" THEN <<>>
          ELSE IF Head(crew).gender = Some(1)
          THEN << [name |-> Head(crew).name, gender |-> "Female"] >>
          ELSE << [name |-> Head(crew).name, gender |-> "Other"] >>)
         \o Classified(Tail(crew))

\* C17: (the claim, which the code does not meet) a fetch whose search found
\* a movie and whose requests did not fail returns the movie's id and the
\* classified directors of its crew.
C17_Classified ==
    \A p \in Procs : \A i \in 1 .. Len(tasks[p]) :
        (/\ tasks[p][i].st = "done"
         /\ tasks[p][i].movie_id # None
         /\ tasks[p][i].err \notin {Some(e) : e \in Failures}) =>
            tasks[p][i].result =
                Some([m_id |-> tasks[p][i].movie_id,
                      directors |-> Classified(CreditsOf(tasks[p][i].movie_id[1]))])

\* C18: if the requests to the API come back, every fetch waiting at the
\* semaphore (one beyond the first SemaphoreSlots of the batch) is admitted,
\* every gather ends in a response and every request returns; and whenever
\* no fetch is admitted all SemaphoreSlots are free and nobody waits.
C18_Terminates ==
    /\ \A p \in Procs : \A i \in SemaphoreSlots + 1 .. GateBatch :
          (i <= Len(tasks[p]) /\ tasks[p][i].st = "waiting")
              ~> (i <= Len(tasks[p]) /\ tasks[p][i].st = "search")
    /\ \A p \in Procs : (pc[p] = "gather") ~> (pc[p] = "done")
    /\ \A p \in Procs : (pc[p] # "idle") ~> (pc[p] = "idle")
    /\ [](Admitted = {} => semValue = SemaphoreSlots /\ semWaiters = <<>>)
\* the request has returned, a fetch having waited at the gate and a fetch
\* having failed: every row is saved and every slot is free again
C18_Witness ==
    /\ runs = 1
    /\ \A p \in Procs : pc[p] = "idle"
    /\ Len(cacheFile) = GateBatch
    /\ \E i \in 1 .. Len(cacheFile) : cacheFile[i].Year = "1" /\ cacheFile[i].TMDB_ID = ""
    /\ semValue = SemaphoreSlots

\* the cells a fetch's own upstream answers amount to: the id and directors
\* of the movie its search found, nothing when it found none or failed
OwnCells(task) ==
    IF task.err # None \/ Expected(task).m_id = None
    THEN [TMDB_ID |-> "", Directors |-> JsonDumps(IF task.err # None THEN <<>>
                                                    ELSE Expected(task).directors)]
    ELSE [TMDB_ID |-> IntToStr(Expected(task).m_id[1]),
          Directors |-> JsonDumps(Expected(task).directors)]

\* C19: the save of a request appends, for its i-th missing row, a row with
\* that row's Name and Year and the cells of the i-th fetch's own answers;
\* so an id is only ever stored for the one film the upstream knows.
C19_Aligned ==
    /\ [][\A p \in Procs :
            (pc[p] = "gather" /\ pc'[p] = "close") =>
                \A i \in 1 .. Len(tasks[p]) :
                    LET row == cacheFile'[Len(cacheFile) + i]
                    IN  /\ row.Name = to_fetch[p][i].Name
                        /\ row.Year = IntToStr(to_fetch[p][i].Year)
                        /\ row.TMDB_ID = OwnCells(tasks[p][i]).TMDB_ID
                        /\ row.Directors = OwnCells(tasks[p][i]).Directors]_vars
    /\ [](\A i \in 1 .. Len(cacheFile) :
            cacheFile[i].TMDB_ID # "" =>
                cacheFile[i].Year = "1" /\ cacheFile[i].TMDB_ID = "7")
\* the large request has saved after the other one: its first film has the
\* id its fetch found, the film whose fetch waited at the gate has none
C19_Witness ==
    /\ pc["p1"] = "close"
    /\ Len(cacheFile) = GateBatch + 1
    /\ cacheFile[2].Year = "1"
    /\ cacheFile[2].TMDB_ID = "7"
    /\ cacheFile[GateBatch + 1].Year = IntToStr(GateBatch)
    /\ cacheFile[GateBatch + 1].TMDB_ID = ""

\* C20: the save of a request keeps every row the file holds at that moment
\* and adds one row per fetch; a request that has saved finds a row for each
\* of its fetched films in the file, whatever the other request saved since;
\* and once overlapping requests have all returned, the file has a row for
\* every film of both uploads.
C20_NoLostUpdate ==
    /\ [][\A p \in Procs :
            (pc[p] = "gather" /\ pc'[p] = "close") =>
                /\ Len(cacheFile') = Len(cacheFile) + Len(tasks[p])
                /\ \A i \in 1 .. Len(cacheFile) : cacheFile'[i] = cacheFile[i]]_vars
    /\ [](\A p \in Procs :
            pc[p] \in {"close", "done"} =>
                \A i \in 1 .. Len(to_fetch[p]) :
                    \E k \in 1 .. Len(cacheFile) :
                        /\ cacheFile[k].Name = to_fetch[p][i].Name
                        /\ cacheFile[k].Year = IntToStr(to_fetch[p][i].Year))
    /\ []((overlapped /\ \A p \in Procs : pc[p] = "idle") =>
            \A y \in 1 .. GateBatch + 1 :
                \E k \in 1 .. Len(cacheFile) : cacheFile[k].Year = IntToStr(y))
\* the two requests overlapped and have returned; the small one saved first
\* and the file holds the rows of both
C20_Witness ==
    /\ overlapped
    /\ \A p \in Procs : pc[p] = "idle"
    /\ Len(cacheFile) = GateBatch + 1
    /\ cacheFile[1].Year = IntToStr(GateBatch + 1)
    /\ cacheFile[2].Year = "1"

====
